---- MODULE Spec2Model ----
(***************************************************************************)
(* Model of pdf-writer's interactive.rs: the Transition and Action         *)
(* dictionary writers and the encoders of TransitionStyle, TransitionAngle *)
(* and ActionType.  The output buffer is a sequence of tokens; every       *)
(* setter appends the tokens its code writes through Dict::pair or         *)
(* Dict::key.  Dict, Obj, Destination and FileSpec live outside            *)
(* interactive.rs and are modelled from their documented contract.         *)
(***************************************************************************)
EXTENDS Integers, Sequences, FiniteSets, TLC

\* ---------------------------------------------------------------- bounds
\* number of setter calls made on one facade before it is dropped
MaxCalls == 2
\* f32 arguments are drawn from 0..MaxF32
MaxF32 == 1
\* page references are drawn from 1..MaxRef
MaxRef == 2
\* number of items / pairs written into one nested Destination or FileSpec
MaxInner == 1

F32Values == 0..MaxF32
RefValues == 1..MaxRef
BoolValues == {TRUE, FALSE}
StrValues == {"https://example.com", "a"}
NameValues == {"Chapter1", "D"}
DestinationItems == {"Fit"}
FileSpecKeys == {"F", "UF"}

\* ---------------------------------------------------------------- tokens
Tok(t, s, n) == [t |-> t, s |-> s, n |-> n]
Name(s) == Tok("name", s, 0)
IntTok(n) == Tok("int", "", n)
RealTok(n) == Tok("real", "", n)
Bool(b) == Tok("bool", IF b THEN "true" ELSE "false", 0)
Str(s) == Tok("str", s, 0)
Ref(n) == Tok("ref", "", n)
DictOpen == Tok("dopen", "", 0)
DictClose == Tok("dclose", "", 0)
ArrayOpen == Tok("aopen", "", 0)
ArrayClose == Tok("aclose", "", 0)

\* ------------------------------------------------- Obj and Dict (contract)
\* Obj::dict: the cursor commits to being a dictionary
dict(b) == Append(b, DictOpen)
\* Obj::array: the cursor commits to being an array
array(b) == Append(b, ArrayOpen)
\* Obj::primitive: the cursor writes one scalar token
primitive(b, tok) == Append(b, tok)
\* Dict::key: writes the key and hands out the cursor for its value
key(b, name) == Append(b, name)
\* Dict::pair: writes the key, then the value, immediately
pair(b, name, tok) == primitive(key(b, name), tok)
\* Array::item
item(b, tok) == primitive(b, tok)
\* Drop for Dict / Array: the closing delimiter
DictDrop(b) == Append(b, DictClose)
ArrayDrop(b) == Append(b, ArrayClose)
\* Destination::start(obj, page): an array whose first item is the page
Destination_start(b, page) == item(array(b), Ref(page))
\* FileSpec::new(obj): a nested dictionary
FileSpec_new(b) == dict(b)

\* ------------------------------------------------------------ enumerations
TransitionStyle == {"Split", "Blinds", "Box", "Wipe", "Dissolve", "Glitter",
                    "R", "Fly", "Push", "Cover", "Uncover", "Fade"}
TransitionAngle == {"LeftToRight", "BottomToTop", "RightToLeft", "TopToBottom",
                    "TopLeftToBottomRight", "None"}
ActionType == {"GoTo", "RemoteGoTo", "Launch", "Uri"}

TransitionStyle_to_name_Mut(kind) ==
    CASE kind = "Split" -> Name("Split")
      [] kind = "Blinds" -> Name("Blinds")
      [] kind = "Box" -> Name("Box")
      [] kind = "Wipe" -> Name("Wipe")
      [] kind = "Dissolve" -> Name("Dissolve")
      [] kind = "Glitter" -> Name("Glitter")
      [] kind = "R" -> Name("R")
      [] kind = "Fly" -> Name("Fly")
      [] kind = "Push" -> Name("Push")
      [] kind = "Cover" -> Name("Cover")
      [] kind = "Uncover" -> Name("Cover")
      [] kind = "Fade" -> Name("Fade")

TransitionStyle_to_name(kind) ==
    CASE kind = "Split" -> Name("Split")
      [] kind = "Blinds" -> Name("Blinds")
      [] kind = "Box" -> Name("Box")
      [] kind = "Wipe" -> Name("Wipe")
      [] kind = "Dissolve" -> Name("Dissolve")
      [] kind = "Glitter" -> Name("Glitter")
      [] kind = "R" -> Name("R")
      [] kind = "Fly" -> Name("Fly")
      [] kind = "Push" -> Name("Push")
      [] kind = "Cover" -> Name("Cover")
      [] kind = "Uncover" -> Name("Uncover")
      [] kind = "Fade" -> Name("Fade")

TransitionAngle_write_to_obj_Mut(a, b) ==
    CASE a = "LeftToRight" -> primitive(b, IntTok(0))
      [] a = "BottomToTop" -> primitive(b, IntTok(90))
      [] a = "RightToLeft" -> primitive(b, IntTok(180))
      [] a = "TopToBottom" -> primitive(b, IntTok(270))
      [] a = "TopLeftToBottomRight" -> primitive(b, IntTok(270))
      [] a = "None" -> primitive(b, Name("None"))

TransitionAngle_write_to_obj(a, b) ==
    CASE a = "LeftToRight" -> primitive(b, IntTok(0))
      [] a = "BottomToTop" -> primitive(b, IntTok(90))
      [] a = "RightToLeft" -> primitive(b, IntTok(180))
      [] a = "TopToBottom" -> primitive(b, IntTok(270))
      [] a = "TopLeftToBottomRight" -> primitive(b, IntTok(315))
      [] a = "None" -> primitive(b, Name("None"))

ActionType_to_name_Mut(kind) ==
    CASE kind = "GoTo" -> Name("GoTo")
      [] kind = "RemoteGoTo" -> Name("GoToR")
      [] kind = "Launch" -> Name("Launch")
      [] kind = "Uri" -> Name("Uri")

ActionType_to_name(kind) ==
    CASE kind = "GoTo" -> Name("GoTo")
      [] kind = "RemoteGoTo" -> Name("GoToR")
      [] kind = "Launch" -> Name("Launch")
      [] kind = "Uri" -> Name("URI")

\* ------------------------------------------------- Transition: what it writes
Transition_new_Mut(b) == pair(dict(b), Name("Type"), Name("Action"))

Transition_new(b) == pair(dict(b), Name("Type"), Name("Trans"))

style(b, kind) == pair(b, Name("S"), TransitionStyle_to_name(kind))

duration(b, seconds) == pair(b, Name("D"), RealTok(seconds))

dimension_Mut(b, vertical) ==
    pair(b, Name("Dm"), IF vertical THEN Name("H") ELSE Name("V"))

dimension(b, vertical) ==
    pair(b, Name("Dm"), IF vertical THEN Name("V") ELSE Name("H"))

direction(b, outward) ==
    pair(b, Name("M"), IF outward THEN Name("O") ELSE Name("I"))

angle_Mut(b, a) == key(b, Name("Di"))

angle(b, a) == TransitionAngle_write_to_obj(a, key(b, Name("Di")))

scale_Mut(b, s) == pair(b, Name("S"), RealTok(s))

scale(b, s) == pair(b, Name("SS"), RealTok(s))

opaque(b, o) == pair(b, Name("F"), RealTok(o))

\* ----------------------------------------------------- Action: what it writes
Action_new(b) == pair(dict(b), Name("Type"), Name("Action"))

action_type(b, kind) == pair(b, Name("S"), ActionType_to_name(kind))

dest_direct(b, page) == Destination_start(key(b, Name("D")), page)

dest_name_Mut(b, name) == pair(b, Name("Dest"), Name(name))

dest_name(b, name) == pair(b, Name("D"), Name(name))

file(b) == FileSpec_new(key(b, Name("F")))

new_window(b, new) == pair(b, Name("NewWindow"), Bool(new))

uri_Mut(b, u) == b

uri(b, u) == pair(b, Name("URI"), Str(u))

is_map(b, map) == pair(b, Name("IsMap"), Bool(map))

\* ------------------------------------------------------------------- state
VARIABLES
    buf,      \* the tokens emitted so far
    facade,   \* "none", "Transition" or "Action"
    phase,    \* "obj" (fresh cursor), "open" (facade alive), "dropped"
    inner,    \* the nested writer borrowing the facade: "none", "Destination", "FileSpec"
    innerN,   \* number of items / pairs written into the nested writer
    log       \* history of the setter calls: operation, argument, Len(buf) before the call

vars == <<buf, facade, phase, inner, innerN, log>>

Call(op, s, n, b) == [op |-> op, s |-> s, n |-> n, b |-> b, at |-> Len(buf)]

Init ==
    /\ buf = <<>>
    /\ facade = "none"
    /\ phase = "obj"
    /\ inner = "none"
    /\ innerN = 0
    /\ log = <<>>

\* Transition::new / Action::new consume the fresh cursor
TransitionNew ==
    /\ phase = "obj"
    /\ buf' = Transition_new(buf)
    /\ facade' = "Transition"
    /\ phase' = "open"
    /\ UNCHANGED <<inner, innerN, log>>

ActionNew ==
    /\ phase = "obj"
    /\ buf' = Action_new(buf)
    /\ facade' = "Action"
    /\ phase' = "open"
    /\ UNCHANGED <<inner, innerN, log>>

\* a setter needs &mut self: the facade is alive and nothing borrows it
CanCall(f) ==
    /\ phase = "open"
    /\ facade = f
    /\ inner = "none"
    /\ Len(log) < MaxCalls

Style ==
    /\ CanCall("Transition")
    /\ \E kind \in TransitionStyle :
        /\ buf' = style(buf, kind)
        /\ log' = Append(log, Call("style", kind, 0, FALSE))
    /\ UNCHANGED <<facade, phase, inner, innerN>>

Duration ==
    /\ CanCall("Transition")
    /\ \E seconds \in F32Values :
        /\ buf' = duration(buf, seconds)
        /\ log' = Append(log, Call("duration", "", seconds, FALSE))
    /\ UNCHANGED <<facade, phase, inner, innerN>>

Dimension ==
    /\ CanCall("Transition")
    /\ \E vertical \in BoolValues :
        /\ buf' = dimension(buf, vertical)
        /\ log' = Append(log, Call("dimension", "", 0, vertical))
    /\ UNCHANGED <<facade, phase, inner, innerN>>

Direction ==
    /\ CanCall("Transition")
    /\ \E outward \in BoolValues :
        /\ buf' = direction(buf, outward)
        /\ log' = Append(log, Call("direction", "", 0, outward))
    /\ UNCHANGED <<facade, phase, inner, innerN>>

Angle ==
    /\ CanCall("Transition")
    /\ \E a \in TransitionAngle :
        /\ buf' = angle(buf, a)
        /\ log' = Append(log, Call("angle", a, 0, FALSE))
    /\ UNCHANGED <<facade, phase, inner, innerN>>

Scale ==
    /\ CanCall("Transition")
    /\ \E s \in F32Values :
        /\ buf' = scale(buf, s)
        /\ log' = Append(log, Call("scale", "", s, FALSE))
    /\ UNCHANGED <<facade, phase, inner, innerN>>

Opaque ==
    /\ CanCall("Transition")
    /\ \E o \in F32Values :
        /\ buf' = opaque(buf, o)
        /\ log' = Append(log, Call("opaque", "", o, FALSE))
    /\ UNCHANGED <<facade, phase, inner, innerN>>

ActionTypeCall ==
    /\ CanCall("Action")
    /\ \E kind \in ActionType :
        /\ buf' = action_type(buf, kind)
        /\ log' = Append(log, Call("action_type", kind, 0, FALSE))
    /\ UNCHANGED <<facade, phase, inner, innerN>>

\* dest_direct returns a Destination that borrows the Action
DestDirect ==
    /\ CanCall("Action")
    /\ \E page \in RefValues :
        /\ buf' = dest_direct(buf, page)
        /\ log' = Append(log, Call("dest_direct", "", page, FALSE))
    /\ inner' = "Destination"
    /\ innerN' = 0
    /\ UNCHANGED <<facade, phase>>

DestName ==
    /\ CanCall("Action")
    /\ \E name \in NameValues :
        /\ buf' = dest_name(buf, name)
        /\ log' = Append(log, Call("dest_name", name, 0, FALSE))
    /\ UNCHANGED <<facade, phase, inner, innerN>>

\* file returns a FileSpec that borrows the Action
File ==
    /\ CanCall("Action")
    /\ buf' = file(buf)
    /\ log' = Append(log, Call("file", "", 0, FALSE))
    /\ inner' = "FileSpec"
    /\ innerN' = 0
    /\ UNCHANGED <<facade, phase>>

NewWindow ==
    /\ CanCall("Action")
    /\ \E new \in BoolValues :
        /\ buf' = new_window(buf, new)
        /\ log' = Append(log, Call("new_window", "", 0, new))
    /\ UNCHANGED <<facade, phase, inner, innerN>>

Uri ==
    /\ CanCall("Action")
    /\ \E u \in StrValues :
        /\ buf' = uri(buf, u)
        /\ log' = Append(log, Call("uri", u, 0, FALSE))
    /\ UNCHANGED <<facade, phase, inner, innerN>>

IsMap ==
    /\ CanCall("Action")
    /\ \E map \in BoolValues :
        /\ buf' = is_map(buf, map)
        /\ log' = Append(log, Call("is_map", "", 0, map))
    /\ UNCHANGED <<facade, phase, inner, innerN>>

\* the nested Destination array: further items, then its drop
DestinationItem ==
    /\ inner = "Destination"
    /\ innerN < MaxInner
    /\ \E s \in DestinationItems : buf' = item(buf, Name(s))
    /\ innerN' = innerN + 1
    /\ UNCHANGED <<facade, phase, inner, log>>

DestinationDrop ==
    /\ inner = "Destination"
    /\ buf' = ArrayDrop(buf)
    /\ inner' = "none"
    /\ innerN' = 0
    /\ UNCHANGED <<facade, phase, log>>

\* the nested FileSpec dictionary: further pairs, then its drop
FileSpecPair ==
    /\ inner = "FileSpec"
    /\ innerN < MaxInner
    /\ \E k \in FileSpecKeys, v \in StrValues : buf' = pair(buf, Name(k), Str(v))
    /\ innerN' = innerN + 1
    /\ UNCHANGED <<facade, phase, inner, log>>

FileSpecDrop ==
    /\ inner = "FileSpec"
    /\ buf' = DictDrop(buf)
    /\ inner' = "none"
    /\ innerN' = 0
    /\ UNCHANGED <<facade, phase, log>>

\* the facade goes out of scope; a nested writer is always dropped first
Drop ==
    /\ phase = "open"
    /\ inner = "none"
    /\ buf' = DictDrop(buf)
    /\ phase' = "dropped"
    /\ UNCHANGED <<facade, inner, innerN, log>>

Next ==
    \/ TransitionNew
    \/ ActionNew
    \/ Style
    \/ Duration
    \/ Dimension
    \/ Direction
    \/ Angle
    \/ Scale
    \/ Opaque
    \/ ActionTypeCall
    \/ DestDirect
    \/ DestName
    \/ File
    \/ NewWindow
    \/ Uri
    \/ IsMap
    \/ DestinationItem
    \/ DestinationDrop
    \/ FileSpecPair
    \/ FileSpecDrop
    \/ Drop

Spec == Init /\ [][Next]_vars

\* ------------------------------------------------- reading the output back
IsOpen(tok) == tok.t \in {"dopen", "aopen"}
IsClose(tok) == tok.t \in {"dclose", "aclose"}

\* nesting depth after the first n tokens of b
Depth(b, n) ==
    Cardinality({i \in 1..n : IsOpen(b[i])}) - Cardinality({i \in 1..n : IsClose(b[i])})

\* index of the delimiter closing the structure whose content starts at i
\* (d structures are open there); Len(b) when it is still unterminated
RECURSIVE MatchEnd(_, _, _)
MatchEnd(b, i, d) ==
    IF i > Len(b) THEN Len(b)
    ELSE IF IsOpen(b[i]) THEN MatchEnd(b, i + 1, d + 1)
    ELSE IF IsClose(b[i]) THEN (IF d = 1 THEN i ELSE MatchEnd(b, i + 1, d - 1))
    ELSE MatchEnd(b, i + 1, d)

\* index of the last token of the value that starts at i; 0 when there is none
ValueEnd(b, i) ==
    IF i > Len(b) THEN 0
    ELSE IF IsClose(b[i]) THEN 0
    ELSE IF IsOpen(b[i]) THEN MatchEnd(b, i + 1, 1)
    ELSE i

\* the key/value pairs of a dictionary whose content starts at i
RECURSIVE PairsFrom(_, _)
PairsFrom(b, i) ==
    IF i > Len(b) \/ IsClose(b[i]) THEN <<>>
    ELSE LET e == ValueEnd(b, i + 1)
             last == IF e = 0 THEN i ELSE e
         IN <<[k |-> b[i], kpos |-> i, vfrom |-> i + 1, vto |-> last]>>
                \o PairsFrom(b, last + 1)

\* the pairs of the outermost dictionary, in output order
TopPairs(b) == IF Len(b) = 0 \/ b[1] # DictOpen THEN <<>> ELSE PairsFrom(b, 2)

\* the positions of the delimiters that close the outermost dictionary
OuterCloses(b) == {i \in 1..Len(b) : IsClose(b[i]) /\ Depth(b, i) = 0}

\* the tokens of the i-th setter call are buf[log[i].at + 1 .. End(i)]
End(i) ==
    IF i < Len(log) THEN log[i + 1].at
    ELSE IF phase = "dropped" THEN Len(buf) - 1
    ELSE Len(buf)

Written(i) == SubSeq(buf, log[i].at + 1, End(i))

\* the value written by the i-th call: its tokens after the key
ValueOf(i) == SubSeq(buf, log[i].at + 2, End(i))

\* the i-th call, if it opened a nested writer, has had it closed
Resolved(i) == i < Len(log) \/ inner = "none"

Calls == 1..Len(log)
Has(op) == \E i \in Calls : log[i].op = op

\* ------------------------------------------------------------------ claims

\* C1: after construction the outermost dictionary holds the Type pair
\* followed by exactly one pair per setter call, the pair of the i-th call
\* being the tokens that call wrote, in call order and without gaps; the
\* closing delimiter of the dictionary is absent while the facade is alive
\* and occurs exactly once, as the last token, once the facade is dropped,
\* whatever the number of calls.
C1_OrderAndClose ==
    phase # "obj" =>
        LET ps == TopPairs(buf) IN
        /\ buf[1] = DictOpen
        /\ Len(ps) = 1 + Len(log)
        /\ ps[1].k = Name("Type") /\ ps[1].kpos = 2 /\ ps[1].vto = 3
        /\ \A i \in Calls :
            /\ ps[i + 1].kpos = log[i].at + 1
            /\ ps[i + 1].kpos = ps[i].vto + 1
            /\ ps[i + 1].k.t = "name"
            /\ ps[i + 1].vto = End(i)
            /\ ps[i + 1].vto >= ps[i + 1].vfrom
        /\ (phase = "open" => OuterCloses(buf) = {})
        /\ (phase = "dropped" => /\ OuterCloses(buf) = {Len(buf)}
                                 /\ buf[Len(buf)] = DictClose)

C1_Witness ==
    /\ phase = "dropped"
    /\ facade = "Action"
    /\ Len(log) = 2
    /\ log[1].op = "file" /\ log[2].op = "is_map"
    /\ log[2].at - log[1].at > 4

\* C2: a Transition that is constructed and dropped without any setter call
\* is the dictionary whose only pair is Type = Trans.
C2_TransitionNoSetter ==
    (facade = "Transition" /\ log = <<>>) =>
        /\ phase = "open" => buf = <<DictOpen, Name("Type"), Name("Trans")>>
        /\ phase = "dropped" =>
                buf = <<DictOpen, Name("Type"), Name("Trans"), DictClose>>

C2_Witness == facade = "Transition" /\ log = <<>> /\ phase = "dropped"

\* C3: Action::new, then action_type(Uri), then uri(s) yields the dictionary
\* with exactly the three pairs Type = Action, S = URI (a name), URI = s (a
\* literal string), in this order.
C3_UriAction ==
    (/\ facade = "Action"
     /\ Len(log) = 2
     /\ log[1].op = "action_type" /\ log[1].s = "Uri"
     /\ log[2].op = "uri") =>
        LET pairs == <<Name("Type"), Name("Action"),
                       Name("S"), Name("URI"),
                       Name("URI"), Str(log[2].s)>>
        IN /\ phase = "open" => buf = <<DictOpen>> \o pairs
           /\ phase = "dropped" => buf = <<DictOpen>> \o pairs \o <<DictClose>>

C3_Witness ==
    /\ facade = "Action"
    /\ phase = "dropped"
    /\ Len(log) = 2
    /\ log[1].op = "action_type" /\ log[1].s = "Uri"
    /\ log[2].op = "uri" /\ log[2].s = "https://example.com"

\* C4: every call angle(a) writes the key Di followed by exactly one value
\* token: the integer 0, 90, 180, 270 or 315 for LeftToRight, BottomToTop,
\* RightToLeft, TopToBottom and TopLeftToBottomRight, the name None for None.
AngleToken(a) ==
    CASE a = "LeftToRight" -> IntTok(0)
      [] a = "BottomToTop" -> IntTok(90)
      [] a = "RightToLeft" -> IntTok(180)
      [] a = "TopToBottom" -> IntTok(270)
      [] a = "TopLeftToBottomRight" -> IntTok(315)
      [] a = "None" -> Name("None")

C4_AngleEncoding ==
    \A i \in Calls :
        log[i].op = "angle" => Written(i) = <<Name("Di"), AngleToken(log[i].s)>>

C4_Witness ==
    /\ \E i \in Calls : log[i].op = "angle" /\ log[i].s = "TopLeftToBottomRight"
    /\ \E i \in Calls : log[i].op = "angle" /\ log[i].s = "None"
    /\ phase = "dropped"

\* C5: the encoders of TransitionStyle, ActionType and TransitionAngle are
\* total and injective: each call writes exactly one value token, a name (or,
\* for an angle, an integer or the name None), the token depends on the
\* variant only, and two calls of one encoder write the same token only for
\* the same variant.
EncoderOps == {"style", "action_type", "angle"}

C5_EncodersInjective ==
    /\ \A i \in Calls :
        log[i].op \in EncoderOps =>
            /\ Len(ValueOf(i)) = 1
            /\ ValueOf(i)[1].t \in (IF log[i].op = "angle" THEN {"int", "name"} ELSE {"name"})
    /\ \A i, j \in Calls :
        (log[i].op \in EncoderOps /\ log[i].op = log[j].op) =>
            (ValueOf(i) = ValueOf(j) <=> log[i].s = log[j].s)

C5_Witness ==
    /\ Len(log) = 2
    /\ \A i \in Calls : log[i].op = "style"
    /\ log[1].s = "Cover" /\ log[2].s = "Uncover"
    /\ phase = "dropped"

\* C6: once the value written through a cursor obtained from Dict::key is
\* resolved (the scalar of angle, the closed Destination of dest_direct, the
\* closed FileSpec of file), the tokens after the key form exactly one
\* complete value, every later setter call writes strictly after that value,
\* and every parent pair starts at the nesting depth of the parent
\* dictionary, never inside a nested value.
NestingOps == {"angle", "dest_direct", "file"}

C6_NestedThenParent ==
    /\ \A i \in Calls :
        (log[i].op \in NestingOps /\ Resolved(i)) =>
            /\ buf[log[i].at + 1].t = "name"
            /\ ValueEnd(buf, log[i].at + 2) = End(i)
            /\ Depth(buf, End(i)) = 1
            /\ \A j \in Calls : j > i => log[j].at >= End(i)
    /\ \A j \in Calls : Depth(buf, log[j].at) = 1
    /\ (inner # "none" <=> Depth(buf, Len(buf)) = 2)

C6_Witness ==
    /\ facade = "Action"
    /\ phase = "dropped"
    /\ Len(log) = 2
    /\ log[1].op = "dest_direct" /\ log[2].op = "uri"
    /\ log[2].at - log[1].at > 4

\* C7: setters neither overwrite nor deduplicate: every call contributes its
\* own pair to the dictionary, calls of the same setter write the same key
\* and keep distinct values for distinct arguments, and the number of D keys
\* of an Action is the number of dest_direct and dest_name calls together
\* (two when both are called).
C7_NoOverwriteNoDedup ==
    LET ps == TopPairs(buf) IN
    phase # "obj" =>
        /\ Len(ps) = 1 + Len(log)
        /\ \A i, j \in Calls :
            (i < j /\ log[i].op = log[j].op) =>
                /\ ps[i + 1].k = ps[j + 1].k
                /\ ps[i + 1].kpos < ps[j + 1].kpos
                /\ (Resolved(j) /\ [log[i] EXCEPT !.at = 0] # [log[j] EXCEPT !.at = 0])
                        => ValueOf(i) # ValueOf(j)
        /\ Cardinality({p \in 1..Len(ps) : ps[p].k = Name("D")})
                = Cardinality({i \in Calls : log[i].op \in {"dest_direct", "dest_name", "duration"}})

C7_Witness ==
    /\ facade = "Action"
    /\ phase = "dropped"
    /\ Len(log) = 2
    /\ log[1].op = "dest_direct"
    /\ log[2].op = "dest_name" /\ log[2].s = "Chapter1"

\* C8: every call opaque(value) appends a pair whose key is B.
C8_OpaqueWritesB ==
    \A i \in Calls : log[i].op = "opaque" => buf[log[i].at + 1] = Name("B")

\* C9: dimension(vertical) writes the key Dm with the name V when vertical is
\* true and H when it is false; direction(outward) writes the key M with the
\* name O when outward is true and I when it is false.
C9_DimensionDirection ==
    \A i \in Calls :
        /\ log[i].op = "dimension" =>
            Written(i) = <<Name("Dm"), IF log[i].b THEN Name("V") ELSE Name("H")>>
        /\ log[i].op = "direction" =>
            Written(i) = <<Name("M"), IF log[i].b THEN Name("O") ELSE Name("I")>>

C9_Witness ==
    /\ phase = "dropped"
    /\ \E i \in Calls : log[i].op = "dimension" /\ log[i].b
    /\ \E i \in Calls : log[i].op = "direction" /\ ~log[i].b

\* C10: for a Transition the keys of the dictionary are Type followed by one
\* key per setter call, in call order, under the mapping style->S,
\* duration->D, dimension->Dm, direction->M, angle->Di, scale->SS, opaque->F;
\* so Type occurs exactly once, first, and no key outside
\* {Type, S, D, Dm, M, Di, SS, F} is emitted.
TransitionKey(op) ==
    CASE op = "style" -> "S"
      [] op = "duration" -> "D"
      [] op = "dimension" -> "Dm"
      [] op = "direction" -> "M"
      [] op = "angle" -> "Di"
      [] op = "scale" -> "SS"
      [] op = "opaque" -> "F"

TransitionKeys == {"Type", "S", "D", "Dm", "M", "Di", "SS", "F"}

====
